---- MODULE Spec2Model ----
(***************************************************************************)
(* Model of the skip-section store of the video-to-script pipeline         *)
(* (services/skip_section_manager.py, class SkipSectionManager) on top of  *)
(* the skip_sections table (db/models.py, class SkipSection).              *)
(*                                                                         *)
(* Times are seconds, modelled as integers of a small range that includes  *)
(* a negative value.  An Optional[...] argument or column is a set with at *)
(* most one element: None is {} and a value v is {v}.                      *)
(***************************************************************************)
EXTENDS Integers, Sequences, FiniteSets, TLC

\* ---- bounds ----------------------------------------------------------
MaxTime == 2
MaxId == 2

\* a job and another job: the manager only tells a section's own job from
\* the others
Jobs == {1, 2}
\* start times a caller may pass (one of them negative) and end times
Times == (-1)..(MaxTime - 1)
EndTimes == 1..MaxTime
\* ids a caller may name; MaxId + 1 is never assigned to a row
SectionIds == 1..(MaxId + 1)
None == {}
Optional(S) == {None} \cup {{v} : v \in S}
Reasons == Optional({"credits"})

\* ---- state -----------------------------------------------------------
\* store: the committed rows of table skip_sections
\* last:  the call whose outcome is on its way to the caller, with its
\*        arguments; NoCall when the manager is free for the next call
\* sess:  per database session, the position of a call that has made its
\*        overlap check and has not committed yet (concurrent specification)
VARIABLES store, last, sess

\* jobs: the ids of the committed rows of table jobs
VARIABLES jobs

\* CreditsFilter.combine_with_manual_skips: its two arguments and, once it
\* has returned, the list it returned (None before)
VARIABLES detected_sections, manual_skips, combined

\* ScriptAssembler._build_filtered_transcript: its two arguments and, once
\* it has returned, its list kept_segments and the string it returned
VARIABLES transcriptions, filtered_sections, filtered_transcript

\* construction: the outcome of the latest call of VideoChunker(...), with
\* its arguments (None before the first call)
\* VideoChunker: the configuration of the constructed chunker, the metadata
\* of the video and, once _calculate_chunks has returned, its chunks
VARIABLES chunker, metadata, chunks, construction

\* VideoChunker._detect_scenes_in_chunk: the file as cv2.VideoCapture
\* presents it, the arguments of the call and, once it has returned, the
\* list it returned (None before)
VARIABLES video_file, window, scene_changes

\* opens: in process_video, whether the capture of each window in turn opens
VARIABLES opens

\* CreditsFilter: its configuration, the file as moviepy presents it and,
\* once they have returned, the lists detect_black_frames and
\* detect_silence returned (None before); times in quarter seconds
VARIABLES credits_filter, clip, black_sections, silence_sections

filter_vars == <<detected_sections, manual_skips, combined>>
assembler_vars == <<transcriptions, filtered_sections, filtered_transcript>>
chunker_vars == <<chunker, metadata, chunks, construction>>
scene_vars == <<video_file, window, scene_changes, opens>>
credits_vars == <<credits_filter, clip, black_sections, silence_sections>>
detector_vars == <<scene_vars, credits_vars>>
pipeline_vars == <<filter_vars, assembler_vars, chunker_vars, detector_vars>>

vars == <<store, last, sess, jobs, pipeline_vars>>

Sessions == {"A", "B"}

SkipSection(id, job_id, start_seconds, end_seconds, reason) ==
    [id |-> id, job_id |-> job_id, start_seconds |-> start_seconds,
     end_seconds |-> end_seconds, reason |-> reason]

Max(S) == CHOOSE m \in S : \A x \in S : x <= m

\* INTEGER PRIMARY KEY of SQLite without the AUTOINCREMENT keyword: the new
\* rowid is one more than the largest rowid in the table
NewId(st) == IF st = {} THEN 1 ELSE Max({r.id : r \in st}) + 1

\* ---- outcomes of a call ----------------------------------------------
Return(st, v) == [store |-> st, kind |-> "return", value |-> v]
Raise(st, exc) == [store |-> st, kind |-> "raise", value |-> exc]

\* ---- SkipSectionManager ----------------------------------------------
\* slip: the check for a negative start is missing
validate_time_range_unsigned(start_seconds, end_seconds) ==
    IF start_seconds >= end_seconds THEN "InvalidTimeRangeError" ELSE "ok"

\* "ok" or the exception raised
validate_time_range(start_seconds, end_seconds) ==
    IF start_seconds < 0 THEN "InvalidTimeRangeError"
    ELSE IF start_seconds >= end_seconds THEN "InvalidTimeRangeError"
    ELSE "ok"

\* slip: the second comparison takes the other section's end
sections_overlap_ends(start1, end1, start2, end2) ==
    start1 < end2 /\ end1 > end2

sections_overlap(start1, end1, start2, end2) ==
    start1 < end2 /\ end1 > start2

\* slip: the query is not restricted to the job
check_for_overlap_all_jobs(st, job_id, start_seconds, end_seconds, exclude_id) ==
    LET existing_sections ==
            {r \in st : exclude_id # None => r.id \notin exclude_id}
    IN \E section \in existing_sections :
           start_seconds < section.end_seconds
           /\ end_seconds > section.start_seconds

check_for_overlap(st, job_id, start_seconds, end_seconds, exclude_id) ==
    LET existing_sections ==
            {r \in st : /\ r.job_id = job_id
                        /\ (exclude_id # None => r.id \notin exclude_id)}
    IN \E section \in existing_sections :
           sections_overlap(start_seconds, end_seconds,
                            section.start_seconds, section.end_seconds)

\* lines 176-183 of add_skip_section: "ok" or the exception raised
add_check(st, job_id, start_seconds, end_seconds) ==
    IF validate_time_range(start_seconds, end_seconds) # "ok"
    THEN validate_time_range(start_seconds, end_seconds)
    ELSE IF check_for_overlap(st, job_id, start_seconds, end_seconds, None)
    THEN "OverlappingSectionError"
    ELSE "ok"

\* lines 185-202 of add_skip_section: session.add, commit, refresh
add_commit(st, job_id, start_seconds, end_seconds, reason) ==
    LET section == SkipSection(NewId(st), job_id, start_seconds,
                               end_seconds, reason)
    IN Return(st \cup {section}, section)

add_skip_section(st, job_id, start_seconds, end_seconds, reason) ==
    IF add_check(st, job_id, start_seconds, end_seconds) # "ok"
    THEN Raise(st, add_check(st, job_id, start_seconds, end_seconds))
    ELSE add_commit(st, job_id, start_seconds, end_seconds, reason)

\* all orderings of a finite set of rows
Orderings(S) ==
    {f \in [1..Cardinality(S) -> S] :
        \A i, j \in 1..Cardinality(S) : i # j => f[i] # f[j]}

\* slip: ORDER BY id
get_skip_sections_by_id(st, job_id) ==
    {f \in Orderings({r \in st : r.job_id = job_id}) :
        \A i, j \in 1..Len(f) : i < j => f[i].id <= f[j].id}

\* SELECT ... WHERE job_id = :job_id ORDER BY start_seconds: the set of the
\* sequences the query may return (rows with equal start_seconds come in an
\* order the database chooses)
get_skip_sections(st, job_id) ==
    {f \in Orderings({r \in st : r.job_id = job_id}) :
        \A i, j \in 1..Len(f) :
            i < j => f[i].start_seconds <= f[j].start_seconds}

\* session.get(SkipSection, section_id): {} for None, else {row}
get_skip_section_by_id(st, section_id) ==
    {r \in st : r.id = section_id}

\* lines 271-275 of update_skip_section: the value supplied, else the row's
merge_field(supplied, current) ==
    IF supplied # None THEN CHOOSE v \in supplied : TRUE ELSE current

\* slip: the section itself is not excluded from the overlap check
update_check_self(st, section, start_seconds, end_seconds) ==
    LET new_start == IF start_seconds # None
                     THEN CHOOSE v \in start_seconds : TRUE
                     ELSE section.start_seconds
        new_end == IF end_seconds # None
                   THEN CHOOSE v \in end_seconds : TRUE
                   ELSE section.end_seconds
        checked == IF start_seconds # None \/ end_seconds # None
                   THEN IF new_start < 0 \/ new_start >= new_end
                        THEN "InvalidTimeRangeError" ELSE "ok"
                   ELSE "ok"
    IN IF checked # "ok" THEN checked
       ELSE IF \E r \in st : /\ r.job_id = section.job_id
                              /\ new_start < r.end_seconds
                              /\ new_end > r.start_seconds
       THEN "OverlappingSectionError"
       ELSE "ok"

\* lines 279-289 of update_skip_section for the row loaded: "ok" or the
\* exception raised
update_check(st, section, start_seconds, end_seconds) ==
    LET new_start == merge_field(start_seconds, section.start_seconds)
        new_end == merge_field(end_seconds, section.end_seconds)
        checked == IF start_seconds # None \/ end_seconds # None
                   THEN validate_time_range(new_start, new_end)
                   ELSE "ok"
    IN IF checked # "ok" THEN checked
       ELSE IF check_for_overlap(st, section.job_id, new_start, new_end,
                                 {section.id})
       THEN "OverlappingSectionError"
       ELSE "ok"

\* lines 291-295 of update_skip_section: the attributes assigned to the
\* loaded object
update_fields(section, start_seconds, end_seconds, reason) ==
    [section EXCEPT
        !.start_seconds = merge_field(start_seconds, @),
        !.end_seconds = merge_field(end_seconds, @),
        !.reason = IF reason # None THEN reason ELSE @]

\* lines 297-302 of update_skip_section: commit writes the columns whose
\* value differs from the one loaded to the row with that id, refresh reads
\* the row back.  A row deleted in the meantime makes the flush (no row
\* matched) or the refresh fail.
update_commit(st, section, updated) ==
    LET found == {r \in st : r.id = section.id}
        current == CHOOSE r \in found : TRUE
        written ==
            [current EXCEPT
                !.start_seconds =
                    IF updated.start_seconds # section.start_seconds
                    THEN updated.start_seconds ELSE @,
                !.end_seconds =
                    IF updated.end_seconds # section.end_seconds
                    THEN updated.end_seconds ELSE @,
                !.reason =
                    IF updated.reason # section.reason
                    THEN updated.reason ELSE @]
    IN IF found = {}
       THEN Raise(st, IF updated # section THEN "StaleDataError"
                      ELSE "InvalidRequestError")
       ELSE Return((st \ {current}) \cup {written}, {written})

\* slip: the reason is assigned and committed before the range is checked
update_skip_section_eager(st, section_id, start_seconds, end_seconds, reason) ==
    LET found == {r \in st : r.id = section_id}
        section == CHOOSE r \in found : TRUE
        renamed == [section EXCEPT
                       !.reason = IF reason # None THEN reason ELSE @]
        st1 == (st \ {section}) \cup {renamed}
        new_start == IF start_seconds # None
                     THEN CHOOSE v \in start_seconds : TRUE
                     ELSE section.start_seconds
        new_end == IF end_seconds # None
                   THEN CHOOSE v \in end_seconds : TRUE
                   ELSE section.end_seconds
        updated == [renamed EXCEPT !.start_seconds = new_start,
                                   !.end_seconds = new_end]
    IN IF found = {} THEN Return(st, None)
       ELSE IF (start_seconds # None \/ end_seconds # None)
               /\ (new_start < 0 \/ new_start >= new_end)
       THEN Raise(st1, "InvalidTimeRangeError")
       ELSE IF \E r \in st : /\ r.job_id = section.job_id
                              /\ r.id # section_id
                              /\ new_start < r.end_seconds
                              /\ new_end > r.start_seconds
       THEN Raise(st1, "OverlappingSectionError")
       ELSE Return((st \ {section}) \cup {updated}, {updated})

update_skip_section(st, section_id, start_seconds, end_seconds, reason) ==
    LET found == get_skip_section_by_id(st, section_id)
        section == CHOOSE r \in found : TRUE
    IN IF found = None THEN Return(st, None)
       ELSE IF update_check(st, section, start_seconds, end_seconds) # "ok"
       THEN Raise(st, update_check(st, section, start_seconds, end_seconds))
       ELSE update_commit(st, section,
                          update_fields(section, start_seconds, end_seconds,
                                        reason))

\* slip: the missing row is not told from a deleted one
delete_skip_section_unchecked(st, section_id) ==
    Return(st \ {r \in st : r.id = section_id}, TRUE)

\* slip: the delete takes the other sections of the job with it
delete_skip_section_job(st, section_id) ==
    LET found == {r \in st : r.id = section_id}
    IN IF found = {} THEN Return(st, FALSE)
       ELSE Return({r \in st : \A d \in found : r.job_id # d.job_id}, TRUE)

delete_skip_section(st, section_id) ==
    LET found == get_skip_section_by_id(st, section_id)
    IN IF found = None THEN Return(st, FALSE)
       ELSE Return(st \ found, TRUE)

\* given the sequence get_skip_sections returned
clear_skip_sections(st, sections) ==
    Return(st \ {sections[i] : i \in 1..Len(sections)}, Len(sections))

RECURSIVE SumDurations(_)
SumDurations(sections) ==
    IF sections = <<>> THEN 0
    ELSE (Head(sections).end_seconds - Head(sections).start_seconds)
         + SumDurations(Tail(sections))

RECURSIVE SumEnds(_)
SumEnds(sections) ==
    IF sections = <<>> THEN 0
    ELSE Head(sections).end_seconds + SumEnds(Tail(sections))

\* slip: the start is not subtracted
get_total_skipped_duration_ends(sections) == SumEnds(sections)

\* given the sequence get_skip_sections returned
get_total_skipped_duration(sections) == SumDurations(sections)

\* ---- the record of a call --------------------------------------------
\* The outcome is recorded as an Optional: {} for a returned None, {v} for
\* a returned value or the name of the exception raised.
Box(res) == [res EXCEPT !.value = {@}]
\* for the methods that return Optional[SkipSection]
BoxRaise(res) == IF res.kind = "raise" THEN Box(res) ELSE res

Call(op, job_id, section_id, start_seconds, end_seconds, reason, res) ==
    [op |-> op, job_id |-> job_id, section_id |-> section_id,
     start_seconds |-> start_seconds, end_seconds |-> end_seconds,
     reason |-> reason, kind |-> res.kind, value |-> res.value]

NoCall == [op |-> "none", job_id |-> None, section_id |-> None,
           start_seconds |-> None, end_seconds |-> None, reason |-> None,
           kind |-> "return", value |-> None]

Idle == [pc |-> "idle"]

\* an empty skip_sections table; the jobs the callers name exist
StoreInit ==
    /\ store = {}
    /\ last = NoCall
    /\ sess = [s \in Sessions |-> Idle]
    /\ jobs = Jobs

\* no merge asked for
FilterIdle ==
    /\ detected_sections = <<>>
    /\ manual_skips = <<>>
    /\ combined = None

\* no transcript asked for
AssemblerIdle ==
    /\ transcriptions = <<>>
    /\ filtered_sections = <<>>
    /\ filtered_transcript = None

\* a chunker with the default configuration (durations in units of five
\* seconds, the threshold in tenths) and no video
ChunkerIdle ==
    /\ chunker = [chunk_duration |-> 6, overlap_duration |-> 1,
                  scene_threshold |-> 3]
    /\ construction = None
    /\ metadata = [duration |-> 0]
    /\ chunks = None

\* no capture, no call of _detect_scenes_in_chunk
SceneIdle ==
    /\ video_file = [opened |-> FALSE, fps |-> [num |-> 0, den |-> 1],
                     frames |-> 0, correlation |-> <<>>]
    /\ window = [start_time |-> 0, end_time |-> 0, threshold |-> None]
    /\ scene_changes = None
    /\ opens = <<>>

\* a filter with the default configuration, no clip, no call of a detector
CreditsIdle ==
    /\ credits_filter = [black_frame_threshold |-> 20,
                         silence_threshold_db |-> -40,
                         min_section_duration |-> 4]
    /\ clip = [loads |-> FALSE, audio |-> FALSE, duration |-> 0,
               level_db |-> <<>>]
    /\ black_sections = None
    /\ silence_sections = None

DetectorIdle ==
    /\ SceneIdle
    /\ CreditsIdle

Init ==
    /\ StoreInit
    /\ DetectorIdle
    /\ FilterIdle
    /\ AssemblerIdle
    /\ ChunkerIdle

\* ---- calls issued one at a time: a call starts when the previous one has
\* ---- returned to its caller
Add ==
    \E job_id \in Jobs, start_seconds \in Times, end_seconds \in EndTimes,
       reason \in Reasons :
        LET res == add_skip_section(store, job_id, start_seconds,
                                    end_seconds, reason)
        IN /\ last.op = "none"
           /\ res.kind = "return" => res.value.id <= MaxId
           /\ store' = res.store
           /\ last' = Call("add", {job_id}, None, {start_seconds},
                           {end_seconds}, reason, Box(res))
           /\ UNCHANGED <<sess, jobs, pipeline_vars>>

Update ==
    \E section_id \in SectionIds, start_seconds \in Optional(Times),
       end_seconds \in Optional(EndTimes), reason \in Reasons :
        LET res == update_skip_section(store, section_id, start_seconds,
                                       end_seconds, reason)
        IN /\ last.op = "none"
           /\ store' = res.store
           /\ last' = Call("update", None, {section_id}, start_seconds,
                           end_seconds, reason, BoxRaise(res))
           /\ UNCHANGED <<sess, jobs, pipeline_vars>>

Delete ==
    \E section_id \in SectionIds :
        LET res == delete_skip_section(store, section_id)
        IN /\ last.op = "none"
           /\ store' = res.store
           /\ last' = Call("delete", None, {section_id}, None, None, None,
                           Box(res))
           /\ UNCHANGED <<sess, jobs, pipeline_vars>>

Clear ==
    \E job_id \in Jobs :
        \E sections \in get_skip_sections(store, job_id) :
            LET res == clear_skip_sections(store, sections)
            IN /\ last.op = "none"
               /\ store' = res.store
               /\ last' = Call("clear", {job_id}, None, None, None, None,
                               Box(res))
               /\ UNCHANGED <<sess, jobs, pipeline_vars>>

GetById ==
    \E section_id \in SectionIds :
        /\ last.op = "none"
        /\ last' = Call("get_by_id", None, {section_id}, None, None, None,
                        Return(store,
                               get_skip_section_by_id(store, section_id)))
        /\ UNCHANGED <<store, sess, jobs, pipeline_vars>>

GetSections ==
    \E job_id \in Jobs :
        \E sections \in get_skip_sections(store, job_id) :
            /\ last.op = "none"
            /\ last' = Call("get_sections", {job_id}, None, None, None,
                            None, Box(Return(store, sections)))
            /\ UNCHANGED <<store, sess, jobs, pipeline_vars>>

GetTotal ==
    \E job_id \in Jobs :
        \E sections \in get_skip_sections(store, job_id) :
            /\ last.op = "none"
            /\ last' = Call("get_total", {job_id}, None, None, None, None,
                            Box(Return(store,
                                get_total_skipped_duration(sections))))
            /\ UNCHANGED <<store, sess, jobs, pipeline_vars>>

\* the outcome reaches the caller (the router answers the request and
\* get_db closes the session); the next call can be issued
Respond ==
    /\ last.op # "none"
    /\ last' = NoCall
    /\ UNCHANGED <<store, sess, jobs, pipeline_vars>>

Next ==
    \/ Add
    \/ Update
    \/ Delete
    \/ Clear
    \/ GetById
    \/ GetSections
    \/ GetTotal
    \/ Respond

Spec == Init /\ [][Next]_vars

\* ---- two sessions: the check and the commit of a call are two steps ---
\* The outcome of a call goes to its caller and is not recorded in last; the
\* calls pass no reason, which plays no part in the checks.

\* add_skip_section up to the overlap check, in session s: a call that
\* raises ends here and changes nothing
AddCheck(s) ==
    \E job_id \in Jobs, start_seconds \in Times, end_seconds \in EndTimes :
        /\ sess[s].pc = "idle"
        /\ IF add_check(store, job_id, start_seconds, end_seconds) # "ok"
           THEN UNCHANGED sess
           ELSE sess' = [sess EXCEPT ![s] =
                            [pc |-> "add_commit", job_id |-> job_id,
                             start_seconds |-> start_seconds,
                             end_seconds |-> end_seconds]]
        /\ UNCHANGED <<store, last, jobs, pipeline_vars>>

\* the rest of add_skip_section, in session s
AddCommit(s) ==
    LET p == sess[s]
        res == add_commit(store, p.job_id, p.start_seconds, p.end_seconds,
                          None)
    IN /\ p.pc = "add_commit"
       /\ res.value.id <= MaxId
       /\ store' = res.store
       /\ sess' = [sess EXCEPT ![s] = Idle]
       /\ UNCHANGED <<last, jobs, pipeline_vars>>

\* update_skip_section up to the overlap check, in session s: a call that
\* returns None or raises ends here and changes nothing
UpdateCheck(s) ==
    \E section_id \in SectionIds, start_seconds \in Optional(Times),
       end_seconds \in Optional(EndTimes) :
        LET found == get_skip_section_by_id(store, section_id)
            section == CHOOSE r \in found : TRUE
        IN /\ sess[s].pc = "idle"
           /\ IF found = None THEN UNCHANGED sess
              ELSE IF update_check(store, section, start_seconds,
                                   end_seconds) # "ok"
              THEN UNCHANGED sess
              ELSE sess' = [sess EXCEPT ![s] =
                               [pc |-> "update_commit",
                                section |-> section,
                                updated |-> update_fields(section,
                                    start_seconds, end_seconds, None)]]
           /\ UNCHANGED <<store, last, jobs, pipeline_vars>>

\* the rest of update_skip_section, in session s
UpdateCommit(s) ==
    LET p == sess[s]
        res == update_commit(store, p.section, p.updated)
    IN /\ p.pc = "update_commit"
       /\ store' = res.store
       /\ sess' = [sess EXCEPT ![s] = Idle]
       /\ UNCHANGED <<last, jobs, pipeline_vars>>

\* delete_skip_section in session s
DeleteIn(s) ==
    \E section_id \in SectionIds :
        /\ sess[s].pc = "idle"
        /\ store' = delete_skip_section(store, section_id).store
        /\ UNCHANGED <<sess, last, jobs, pipeline_vars>>

NextConc ==
    \E s \in Sessions :
        \/ AddCheck(s)
        \/ AddCommit(s)
        \/ UpdateCheck(s)
        \/ UpdateCommit(s)
        \/ DeleteIn(s)

SpecConc == Init /\ [][NextConc]_vars

\* ---- jobs and their skip sections (db/models.py, class Job) ------------
\* slip: the cascade is not restricted to the sections of the job
delete_job_all(st, js, job_id) == [store |-> {}, jobs |-> js \ {job_id}, deleted |-> {r.id : r \in st}]

\* session.delete(job); session.commit(): relationship Job.skip_sections
\* has cascade "all, delete-orphan", so the flush deletes the sections the
\* relationship loads (those whose job_id is the job's id) and then the job.
\* deleted: the ids of the skip_sections rows the flush deleted
delete_job(st, js, job_id) ==
    [store |-> {r \in st : r.job_id # job_id},
     jobs |-> js \ {job_id},
     deleted |-> {r.id : r \in {x \in st : x.job_id = job_id}}]

\* POST /skip_sections: 404 when the job does not exist, otherwise
\* add_skip_section
CreateSkipSection ==
    \E job_id \in Jobs, start_seconds \in Times, end_seconds \in EndTimes,
       reason \in Reasons :
        LET res == IF job_id \in jobs
                   THEN add_skip_section(store, job_id, start_seconds,
                                         end_seconds, reason)
                   ELSE Raise(store, "HTTP_404_NOT_FOUND")
        IN /\ last.op = "none"
           /\ res.kind = "return" => res.value.id <= MaxId
           /\ store' = res.store
           /\ last' = Call("create_skip_section", {job_id}, None,
                           {start_seconds}, {end_seconds}, reason, Box(res))
           /\ UNCHANGED <<sess, jobs, pipeline_vars>>

\* POST /process: a new row of table jobs (the video exists)
CreateJob ==
    LET id == IF jobs = {} THEN 1 ELSE Max(jobs) + 1
    IN /\ last.op = "none"
       /\ id \in Jobs
       /\ jobs' = jobs \cup {id}
       /\ last' = Call("start_processing", {id}, None, None, None, None,
                       Box(Return(store, id)))
       /\ UNCHANGED <<store, sess, pipeline_vars>>

\* an existing job is deleted through a session
DeleteJob ==
    \E job_id \in jobs :
        LET res == delete_job(store, jobs, job_id)
        IN /\ last.op = "none"
           /\ store' = res.store
           /\ jobs' = res.jobs
           /\ last' = Call("delete_job", {job_id}, None, None, None, None,
                           Box(Return(res.store, res.deleted)))
           /\ UNCHANGED <<sess, pipeline_vars>>

NextJobs ==
    \/ CreateSkipSection
    \/ CreateJob
    \/ DeleteJob
    \/ Respond

SpecJobs == Init /\ [][NextJobs]_vars

\* ---- CreditsFilter.combine_with_manual_skips (credits_filter.py) -------
\* Confidences are tenths: 1.0 is 10.
MaxSections == 3
ConfidenceOne == 10

FilteredSection(start_seconds, end_seconds, method, confidence, notes) ==
    [start_seconds |-> start_seconds, end_seconds |-> end_seconds,
     method |-> method, confidence |-> confidence, notes |-> notes]

\* the intervals [start, end) with 0 <= start < end <= MaxTime
Intervals ==
    {i \in (0..(MaxTime - 1)) \X (1..MaxTime) : i[1] < i[2]}
Confidences == {5, ConfidenceOne}

\* what the two detectors emit
DetectedSections ==
    {FilteredSection(i[1], i[2], method, confidence, None) :
        i \in Intervals, method \in {"black_frame", "silence"},
        confidence \in Confidences}
\* what a caller passes as manual skips
ManualSections ==
    {FilteredSection(i[1], i[2], "manual", ConfidenceOne, None) :
        i \in Intervals}

SeqsUpTo(S, n) == UNION {[1..k -> S] : k \in 0..n}

\* list.sort(key=start_seconds) is stable: a section goes behind every
\* section whose start is not larger than its own
RECURSIVE insert_by_start(_, _)
insert_by_start(sorted, section) ==
    IF sorted = <<>> THEN <<section>>
    ELSE IF Head(sorted).start_seconds <= section.start_seconds
         THEN <<Head(sorted)>> \o insert_by_start(Tail(sorted), section)
         ELSE <<section>> \o sorted

RECURSIVE sort_by_start(_)
sort_by_start(sections) ==
    IF sections = <<>> THEN <<>>
    ELSE insert_by_start(sort_by_start(SubSeq(sections, 1, Len(sections) - 1)),
                         sections[Len(sections)])

\* slip: the section is compared with the section before it in the sorted
\* input, not with the last merged section
overlaps_previous(merged, all_sections, i) == all_sections[i].start_seconds < all_sections[i - 1].end_seconds

\* slip: the end of the section is compared
ends_inside_last(merged, all_sections, i) == all_sections[i].end_seconds < merged[Len(merged)].end_seconds

\* slip: a section that starts where the last one ends is merged
overlaps_or_touches_last(merged, all_sections, i) == all_sections[i].start_seconds <= merged[Len(merged)].end_seconds

\* section.start_seconds < last.end_seconds, section being all_sections[i]
overlaps_last(merged, all_sections, i) ==
    all_sections[i].start_seconds < merged[Len(merged)].end_seconds

\* slip: the method of the later section is not looked at
merged_section_last_method(last_section, section) == FilteredSection(last_section.start_seconds, Max({last_section.end_seconds, section.end_seconds}), last_section.method, Max({last_section.confidence, section.confidence}), {"Merged overlapping sections"})

\* slip: the confidence of the later section is not looked at
merged_section_last_confidence(last_section, section) == FilteredSection(last_section.start_seconds, Max({last_section.end_seconds, section.end_seconds}), IF "manual" \in {last_section.method, section.method} THEN "manual" ELSE last_section.method, IF "manual" \in {last_section.method, section.method} THEN ConfidenceOne ELSE last_section.confidence, {"Merged overlapping sections"})

\* slip: the merged section ends where the earlier section ends
merged_section_first_end(last_section, section) == FilteredSection(last_section.start_seconds, last_section.end_seconds, IF "manual" \in {last_section.method, section.method} THEN "manual" ELSE last_section.method, IF "manual" \in {last_section.method, section.method} THEN ConfidenceOne ELSE Max({last_section.confidence, section.confidence}), {"Merged overlapping sections"})

\* slip: the merged section ends where the later section ends
merged_section_later_end(last_section, section) == FilteredSection(last_section.start_seconds, section.end_seconds, IF "manual" \in {last_section.method, section.method} THEN "manual" ELSE last_section.method, IF "manual" \in {last_section.method, section.method} THEN ConfidenceOne ELSE Max({last_section.confidence, section.confidence}), {"Merged overlapping sections"})

\* the section that replaces merged[-1]
merged_section(last_section, section) ==
    LET manual == \/ last_section.method = "manual"
                  \/ section.method = "manual"
        method == IF manual THEN "manual" ELSE last_section.method
        confidence == IF manual THEN ConfidenceOne
                      ELSE Max({last_section.confidence, section.confidence})
    IN FilteredSection(last_section.start_seconds,
                       Max({last_section.end_seconds, section.end_seconds}),
                       method, confidence, {"Merged overlapping sections"})

\* the loop over all_sections[1:], from position i on
RECURSIVE merge_from(_, _, _)
merge_from(merged, all_sections, i) ==
    IF i > Len(all_sections) THEN merged
    ELSE IF overlaps_last(merged, all_sections, i)
         THEN merge_from([merged EXCEPT ![Len(merged)] =
                             merged_section(merged[Len(merged)],
                                            all_sections[i])],
                         all_sections, i + 1)
         ELSE merge_from(Append(merged, all_sections[i]), all_sections, i + 1)

combine_with_manual_skips(detected, manual) ==
    LET all_sections == sort_by_start(detected \o manual)
    IN IF all_sections = <<>> THEN <<>>
       ELSE merge_from(<<all_sections[1]>>, all_sections, 2)

\* the lists a caller holds: at most MaxSections sections in all
InitFilter ==
    /\ StoreInit
    /\ DetectorIdle
    /\ AssemblerIdle
    /\ ChunkerIdle
    /\ detected_sections \in SeqsUpTo(DetectedSections, MaxSections)
    /\ manual_skips \in SeqsUpTo(ManualSections,
                                 MaxSections - Len(detected_sections))
    /\ combined = None

Combine ==
    /\ combined = None
    /\ combined' = {combine_with_manual_skips(detected_sections,
                                               manual_skips)}
    /\ UNCHANGED <<store, last, sess, jobs, detector_vars,
                   detected_sections, manual_skips,
                   assembler_vars, chunker_vars>>

NextFilter == Combine

SpecFilter == InitFilter /\ [][NextFilter]_vars

\* ---- ScriptAssembler._build_filtered_transcript (script_assembler.py) --
\* A string is the sequence of its characters; "" is << >>.
MaxSegments == 2
MaxTranscriptions == 2

TranscriptionSegment(text, start_time, end_time) ==
    [text |-> text, start_time |-> start_time, end_time |-> end_time]
\* of a TranscriptionResult the function reads the segments only
TranscriptionResult(segments) == [segments |-> segments]

\* The function never looks into a text: the text of the i-th segment of
\* the input is i letters, which tells every segment from the others.
Word(i) == [k \in 1..i |-> "x"]

\* the segments of a transcription run, in order, with their times
SegmentLists ==
    {[i \in 1..Len(times) |->
         TranscriptionSegment(Word(i), times[i][1], times[i][2])] :
     times \in SeqsUpTo(Intervals, MaxSegments)}

\* the positions at which a list of segments is cut into the results of
\* the chunks: a non-decreasing sequence
Cuts(n, k) ==
    {c \in [1..k -> 0..n] : \A i \in 1..(k - 1) : c[i] <= c[i + 1]}

\* segments cut at the positions c into Len(c) + 1 results
SplitAt(segments, c) ==
    [i \in 1..(Len(c) + 1) |->
        TranscriptionResult(
            SubSeq(segments,
                   (IF i = 1 THEN 0 ELSE c[i - 1]) + 1,
                   IF i = Len(c) + 1 THEN Len(segments) ELSE c[i]))]

\* the lists of at most MaxTranscriptions results over the segment lists
TranscriptionLists ==
    {<<>>} \cup
    UNION {{SplitAt(segments, c) :
               c \in UNION {Cuts(Len(segments), k) :
                               k \in 0..(MaxTranscriptions - 1)}} :
           segments \in SegmentLists}

\* slip: a segment that touches a section counts as inside it
segment_in_filtered_section_touching(segment, sections) == \E k \in 1..Len(sections) : segment.start_time <= sections[k].end_seconds /\ segment.end_time >= sections[k].start_seconds

\* the loop over filtered_sections, returning at the first hit
RECURSIVE segment_in_filtered_section(_, _)
segment_in_filtered_section(segment, sections) ==
    IF sections = <<>> THEN FALSE
    ELSE IF /\ segment.start_time < Head(sections).end_seconds
            /\ segment.end_time > Head(sections).start_seconds
         THEN TRUE
         ELSE segment_in_filtered_section(segment, Tail(sections))

\* separator.join(texts)
RECURSIVE join(_, _)
join(separator, texts) ==
    IF texts = <<>> THEN <<>>
    ELSE IF Len(texts) = 1 THEN texts[1]
         ELSE texts[1] \o separator \o join(separator, Tail(texts))

\* the inner loop: the texts kept of the segments of one transcription,
\* appended to kept_segments
RECURSIVE keep_segments(_, _, _)
keep_segments(kept_segments, segments, sections) ==
    IF segments = <<>> THEN kept_segments
    ELSE keep_segments(
             IF ~segment_in_filtered_section(Head(segments), sections)
             THEN Append(kept_segments, Head(segments).text)
             ELSE kept_segments,
             Tail(segments), sections)

\* the outer loop, over the transcriptions
RECURSIVE keep_transcriptions(_, _, _)
keep_transcriptions(kept_segments, results, sections) ==
    IF results = <<>> THEN kept_segments
    ELSE keep_transcriptions(
             keep_segments(kept_segments, Head(results).segments, sections),
             Tail(results), sections)

\* slip: every kept text is followed by a space
build_filtered_transcript_trailing(results, sections) == [kept_segments |-> keep_transcriptions(<<>>, results, sections), transcript |-> IF keep_transcriptions(<<>>, results, sections) = <<>> THEN <<>> ELSE join(<<" ">>, keep_transcriptions(<<>>, results, sections)) \o <<" ">>]

\* kept_segments: the list the loops built; transcript: the string returned
build_filtered_transcript(results, sections) ==
    IF results = <<>>
    THEN [kept_segments |-> <<>>, transcript |-> <<>>]
    ELSE LET kept_segments == keep_transcriptions(<<>>, results, sections)
         IN [kept_segments |-> kept_segments,
             transcript |-> join(<<" ">>, kept_segments)]

\* the results of the chunks of a video and the sections to leave out
InitAssembler ==
    /\ StoreInit
    /\ DetectorIdle
    /\ FilterIdle
    /\ ChunkerIdle
    /\ transcriptions \in TranscriptionLists
    /\ filtered_sections \in SeqsUpTo(ManualSections, MaxSegments)
    /\ filtered_transcript = None

BuildFilteredTranscript ==
    /\ filtered_transcript = None
    /\ filtered_transcript' = {build_filtered_transcript(transcriptions,
                                                         filtered_sections)}
    /\ UNCHANGED <<store, last, sess, jobs, detector_vars,
                   filter_vars, transcriptions,
                   filtered_sections, chunker_vars>>

NextAssembler == BuildFilteredTranscript

SpecAssembler == InitAssembler /\ [][NextAssembler]_vars

\* ---- the sections of the filter handed to the assembler ----------------
\* detected sections of one detector and one confidence
BlackSections ==
    {FilteredSection(i[1], i[2], "black_frame", 5, None) : i \in Intervals}

\* detected and manual sections, at most MaxSegments in all, and the
\* transcription of one chunk
InitScript ==
    /\ StoreInit
    /\ DetectorIdle
    /\ ChunkerIdle
    /\ detected_sections \in SeqsUpTo(BlackSections, MaxSegments)
    /\ manual_skips \in SeqsUpTo(ManualSections,
                                 MaxSegments - Len(detected_sections))
    /\ combined = None
    /\ transcriptions \in
           {<<TranscriptionResult(segments)>> : segments \in SegmentLists}
    /\ filtered_sections = <<>>
    /\ filtered_transcript = None

\* the caller hands the assembler the list combine_with_manual_skips
\* returned
PassCombined ==
    /\ combined # None
    /\ filtered_transcript = None
    /\ filtered_sections' = (CHOOSE sections \in combined : TRUE)
    /\ UNCHANGED <<store, last, sess, jobs, detector_vars,
                   filter_vars, transcriptions,
                   filtered_transcript, chunker_vars>>

\* the caller hands the assembler the detected and the manual sections as
\* they are
PassUnmerged ==
    /\ combined # None
    /\ filtered_transcript = None
    /\ filtered_sections' = detected_sections \o manual_skips
    /\ UNCHANGED <<store, last, sess, jobs, detector_vars,
                   filter_vars, transcriptions,
                   filtered_transcript, chunker_vars>>

NextScript ==
    \/ Combine
    \/ PassCombined
    \/ PassUnmerged
    \/ BuildFilteredTranscript

SpecScript == InitScript /\ [][NextScript]_vars

\* ---- VideoChunker._calculate_chunks (video_chunker.py) ------------------
\* Durations are whole numbers of a unit of time (five seconds make the
\* defaults 6 and 1).
MaxDuration == 12
MaxChunkDuration == 6

VideoChunk(start_time, end_time, index) ==
    [start_time |-> start_time, end_time |-> end_time, index |-> index,
     has_scene_change |-> FALSE, scene_changes |-> <<>>]

Min(S) == CHOOSE m \in S : \A x \in S : m <= x

\* the configurations VideoChunker.__init__ accepts
Chunkers ==
    {c \in [chunk_duration : 1..MaxChunkDuration,
            overlap_duration : 0..(MaxChunkDuration - 1),
            scene_threshold : {3}] :
        c.overlap_duration < c.chunk_duration}

\* slip: the overlap is not subtracted
chunk_step_whole(chunk_duration, overlap_duration) == chunk_duration

\* slip: the overlap is added
chunk_step_added(chunk_duration, overlap_duration) == chunk_duration + overlap_duration

\* step = self.chunk_duration - self.overlap_duration
chunk_step(chunk_duration, overlap_duration) ==
    chunk_duration - overlap_duration

\* slip: the end is not cut at the end of the video
chunk_end_uncut(start_time, chunk_duration, duration) == start_time + chunk_duration

\* end_time = min(start_time + self.chunk_duration, duration)
chunk_end(start_time, chunk_duration, duration) ==
    Min({start_time + chunk_duration, duration})

\* the while loop, entered with the chunks made so far
RECURSIVE chunks_from(_, _, _, _, _)
chunks_from(made, start_time, index, config, duration) ==
    IF start_time < duration
    THEN chunks_from(
             Append(made,
                    VideoChunk(start_time,
                               chunk_end(start_time, config.chunk_duration,
                                         duration),
                               index)),
             start_time + chunk_step(config.chunk_duration,
                                     config.overlap_duration),
             index + 1, config, duration)
    ELSE made

\* slip: the index starts at 1
calculate_chunks_from_one(config, video) == chunks_from(<<>>, 0, 1, config, video.duration)

calculate_chunks(config, video) ==
    chunks_from(<<>>, 0, 0, config, video.duration)

\* a constructed chunker and the metadata of a video
InitChunker ==
    /\ StoreInit
    /\ DetectorIdle
    /\ FilterIdle
    /\ AssemblerIdle
    /\ chunker \in Chunkers
    /\ metadata \in [duration : 0..MaxDuration]
    /\ chunks = None
    /\ construction = None

CalculateChunks ==
    /\ chunks = None
    /\ chunks' = {calculate_chunks(chunker, metadata)}
    /\ UNCHANGED <<store, last, sess, jobs, detector_vars,
                   filter_vars, assembler_vars,
                   chunker, metadata, construction>>

NextChunker == CalculateChunks

SpecChunker == InitChunker /\ [][NextChunker]_vars

\* ---- VideoChunker.__init__ ---------------------------------------------
\* scene thresholds are tenths: 1.0 is 10
ThresholdOne == 10

\* the arguments a caller may pass
ChunkDurations == (-1)..MaxChunkDuration
OverlapDurations == (-1)..MaxChunkDuration
SceneThresholds == {-1, 0, 3, ThresholdOne, ThresholdOne + 1}

\* slip: an overlap equal to the chunk duration is accepted
chunker_init_equal_overlap(chunk_duration, overlap_duration, scene_threshold) == IF chunk_duration <= 0 \/ overlap_duration < 0 \/ overlap_duration > chunk_duration \/ scene_threshold < 0 \/ scene_threshold > ThresholdOne THEN [kind |-> "raise", value |-> {"ValueError"}] ELSE [kind |-> "return", value |-> {[chunk_duration |-> chunk_duration, overlap_duration |-> overlap_duration, scene_threshold |-> scene_threshold]}]

\* the four checks in their order, then the three attributes
chunker_init(chunk_duration, overlap_duration, scene_threshold) ==
    IF chunk_duration <= 0
    THEN [kind |-> "raise", value |-> {"ValueError"}]
    ELSE IF overlap_duration < 0
    THEN [kind |-> "raise", value |-> {"ValueError"}]
    ELSE IF overlap_duration >= chunk_duration
    THEN [kind |-> "raise", value |-> {"ValueError"}]
    ELSE IF scene_threshold < 0 \/ scene_threshold > ThresholdOne
    THEN [kind |-> "raise", value |-> {"ValueError"}]
    ELSE [kind |-> "return",
          value |-> {[chunk_duration |-> chunk_duration,
                      overlap_duration |-> overlap_duration,
                      scene_threshold |-> scene_threshold]}]

\* chunker = VideoChunker(...): the caller's chunker is replaced when the
\* constructor returns and stays what it was when the constructor raises
Construct ==
    \E chunk_duration \in ChunkDurations,
       overlap_duration \in OverlapDurations,
       scene_threshold \in SceneThresholds :
        LET res == chunker_init(chunk_duration, overlap_duration,
                                scene_threshold)
        IN /\ construction' = {[chunk_duration |-> chunk_duration,
                                overlap_duration |-> overlap_duration,
                                scene_threshold |-> scene_threshold,
                                kind |-> res.kind]}
           /\ chunker' = IF res.kind = "return"
                         THEN CHOOSE c \in res.value : TRUE
                         ELSE chunker
           /\ UNCHANGED <<store, last, sess, jobs, detector_vars,
                   filter_vars,
                          assembler_vars, metadata, chunks>>

NextConstruct == Construct

SpecConstruct == Init /\ [][NextConstruct]_vars

\* ---- VideoChunker._detect_scenes_in_chunk ------------------------------
MaxFrames == 4
MaxWindow == 2

\* A frame rate is a fraction num / den of frames per second (3/2 stands
\* for the rates that are no whole number, 0 for a capture that reports
\* none); a timestamp frame_idx / fps is the fraction
\* frame_idx * den / num.
FrameRates ==
    {[num |-> 0, den |-> 1], [num |-> 1, den |-> 1], [num |-> 2, den |-> 1],
     [num |-> 3, den |-> 2]}
Rat(num, den) == [num |-> num, den |-> den]
RatLess(a, b) == a.num * b.den < b.num * a.den
RatLeq(a, b) == a.num * b.den <= b.num * a.den

\* The frames are read one after the other, so that a frame is compared
\* with the frame before it only: correlation[k + 1] is what
\* cv2.compareHist gives for frame k and frame k - 1, in tenths.
Correlations == {-5, 0, 7, ThresholdOne}

\* what cv2.VideoCapture(path) presents: whether it opened, the frame
\* rate, how many frames cap.read() delivers (from frame 0 on) before it
\* fails, and their histogram correlations
Captures ==
    UNION {[opened : BOOLEAN, fps : FrameRates, frames : {n},
            correlation : [1..n -> Correlations]] : n \in 0..MaxFrames}

\* the windows and the thresholds a caller passes (None: the configured
\* scene_threshold)
Windows ==
    {[start_time |-> w[1], end_time |-> w[2], threshold |-> threshold] :
         w \in {w \in (0..MaxWindow) \X (0..MaxWindow) : w[1] < w[2]},
         threshold \in Optional({7})}

SceneChange(timestamp, confidence) ==
    [timestamp |-> timestamp, confidence |-> confidence]

\* 1.0 - max(0.0, correlation) of frame frame_idx and the frame before it
calculate_frame_difference(cap, frame_idx) ==
    ThresholdOne - Max({0, cap.correlation[frame_idx + 1]})

\* int(seconds * fps)
frame_of(seconds, fps) == (seconds * fps.num) \div fps.den

\* slip: a difference equal to the threshold counts as a scene change
is_scene_change_or_equal(difference, threshold) == difference >= threshold

\* if difference > threshold
is_scene_change(difference, threshold) == difference > threshold

\* the while loop from frame_idx on; prev_frame is None or holds the index
\* of the frame read before
RECURSIVE scenes_from(_, _, _, _, _, _)
scenes_from(found, prev_frame, frame_idx, end_frame, cap, threshold) ==
    IF frame_idx > end_frame THEN found
    ELSE IF frame_idx >= cap.frames THEN found
    ELSE LET difference == calculate_frame_difference(cap, frame_idx)
             timestamp == Rat(frame_idx * cap.fps.den, cap.fps.num)
             emitted ==
                 IF prev_frame # None /\ is_scene_change(difference, threshold)
                 THEN Append(found, SceneChange(timestamp, difference))
                 ELSE found
         IN scenes_from(emitted, {frame_idx}, frame_idx + 1, end_frame,
                        cap, threshold)

\* slip: the frame after end_frame is read too
detect_scenes_in_chunk_past_end(config, cap, start_time, end_time, threshold) == IF ~cap.opened THEN <<>> ELSE scenes_from(<<>>, None, frame_of(start_time, cap.fps), frame_of(end_time, cap.fps) + 1, cap, IF threshold = None THEN config.scene_threshold ELSE CHOOSE t \in threshold : TRUE)

detect_scenes_in_chunk(config, cap, start_time, end_time, threshold) ==
    LET used == IF threshold = None THEN config.scene_threshold
                ELSE CHOOSE t \in threshold : TRUE
    IN IF ~cap.opened THEN <<>>
       ELSE scenes_from(<<>>, None, frame_of(start_time, cap.fps),
                        frame_of(end_time, cap.fps), cap, used)

InitScenes ==
    /\ StoreInit
    /\ FilterIdle
    /\ AssemblerIdle
    /\ ChunkerIdle
    /\ CreditsIdle
    /\ video_file \in Captures
    /\ window \in Windows
    /\ scene_changes = None
    /\ opens = <<>>

DetectScenes ==
    /\ scene_changes = None
    /\ scene_changes' = {detect_scenes_in_chunk(chunker, video_file,
                             window.start_time, window.end_time,
                             window.threshold)}
    /\ UNCHANGED <<store, last, sess, jobs, filter_vars, assembler_vars,
                   chunker_vars, video_file, window, opens, credits_vars>>

NextScenes == DetectScenes

SpecScenes == InitScenes /\ [][NextScenes]_vars

\* ---- CreditsFilter.detect_black_frames and detect_silence --------------
\* Times are in quarter seconds, so that the half second of an audio
\* window is 2 and a shorter last window is 1; confidences are in tenths,
\* rounded down.
MaxAudio == 6
chunk_duration == 2

\* whole frame rates per second (0: the capture reports none)
BlackFrameRates == {0, 1, 2, 4}
\* the mean brightness of a frame: below the threshold, and the threshold
Brightnesses == {0, 20}

\* what cv2.VideoCapture(path) presents: whether it opened, the frame
\* rate, the frame count it reports, and the brightness of the frames
\* cap.read() delivers before it fails (one less, as many or one more than
\* reported)
BlackCaptures ==
    UNION {[opened : BOOLEAN, fps : BlackFrameRates,
            total_frames : {m \in 0..MaxFrames : m - n \in {-1, 0, 1}},
            brightness : [1..n -> Brightnesses]] : n \in 0..MaxFrames}

\* what VideoFileClip(path) presents: whether it loads, whether it has
\* audio, its duration, and for each window of a call in turn the level of
\* its samples in dB (None: the window has no samples)
Levels == {-50, -40}
AudioWindows == (MaxAudio + 1) \div chunk_duration
Clips ==
    [loads : BOOLEAN, audio : BOOLEAN, duration : 0..MaxAudio,
     level_db : [1..AudioWindows -> {{level} : level \in Levels}]]

\* the ranges a caller passes (end_time None: to the end of the file)
Ranges ==
    {[start_time |-> start_time, end_time |-> end_time] :
         start_time \in 0..MaxWindow,
         end_time \in Optional(1..(2 * MaxWindow))}

\* the filters CreditsFilter.__init__ accepts, with minimum durations of
\* half a second to a second
CreditsFilters ==
    [black_frame_threshold : {20}, silence_threshold_db : {-40},
     min_section_duration : {2, 3, 4}]

\* int(time * fps)
frame_at(time, fps) == (time * fps) \div 4
\* frame / fps
frame_time(frame, fps) == (4 * frame) \div fps

\* slip: a run of exactly the minimum duration is not long enough
long_enough_strict(config, duration) == duration > config.min_section_duration

\* if duration >= self.min_section_duration
long_enough(config, duration) == duration >= config.min_section_duration

\* the section of a run of black frames that ends before current_frame, if
\* the run is long enough
black_frame_section(config, cap, black_frame_start, current_frame, black_frame_count) ==
    LET duration == frame_time(current_frame - black_frame_start, cap.fps)
    IN IF long_enough(config, duration)
       THEN <<FilteredSection(
                  frame_time(black_frame_start, cap.fps),
                  frame_time(current_frame, cap.fps),
                  "black_frame",
                  Min({ConfidenceOne,
                       (ConfidenceOne * black_frame_count)
                           \div (cap.fps * 2)}),
                  {"Detected black frames"})>>
       ELSE <<>>

\* the while loop from current_frame on and what follows it;
\* black_frame_start is None or holds the first frame of the open run. The
\* division by an fps of 0 raises, which ends the call with the sections
\* found so far.
RECURSIVE black_frames_from(_, _, _, _, _, _, _)
black_frames_from(sections, black_frame_start, black_frame_count, current_frame, end_frame, cap, config) ==
    IF current_frame >= end_frame \/ current_frame >= Len(cap.brightness)
    THEN IF black_frame_start = None \/ cap.fps = 0 THEN sections
         ELSE sections \o
                  black_frame_section(config, cap,
                      CHOOSE f \in black_frame_start : TRUE,
                      current_frame, black_frame_count)
    ELSE IF cap.brightness[current_frame + 1] < config.black_frame_threshold
    THEN black_frames_from(sections,
             IF black_frame_start = None THEN {current_frame}
             ELSE black_frame_start,
             black_frame_count + 1, current_frame + 1, end_frame, cap,
             config)
    ELSE IF black_frame_start = None
    THEN black_frames_from(sections, None, black_frame_count,
                           current_frame + 1, end_frame, cap, config)
    ELSE IF cap.fps = 0 THEN sections
    ELSE black_frames_from(
             sections \o
                 black_frame_section(config, cap,
                     CHOOSE f \in black_frame_start : TRUE,
                     current_frame, black_frame_count),
             None, 0, current_frame + 1, end_frame, cap, config)

detect_black_frames(config, cap, start_time, end_time) ==
    IF ~cap.opened THEN <<>>
    ELSE LET start_frame == frame_at(start_time, cap.fps)
             end_frame ==
                 IF end_time = None THEN cap.total_frames
                 ELSE Min({frame_at(CHOOSE t \in end_time : TRUE, cap.fps),
                           cap.total_frames})
         IN black_frames_from(<<>>, None, 0, start_frame, end_frame, cap,
                              config)

\* the section of a run of silent windows that ends at current_time, if
\* the run is long enough
silence_section(config, silence_start, current_time, notes) ==
    LET duration == current_time - silence_start
    IN IF long_enough(config, duration)
       THEN <<FilteredSection(silence_start, current_time, "silence",
                              Min({ConfidenceOne, duration \div 2}),
                              notes)>>
       ELSE <<>>

\* the while loop from current_time on, the n-th window of the call, and
\* what follows it; silence_start is None or holds the start of the open
\* run
RECURSIVE silence_from(_, _, _, _, _, _, _)
silence_from(sections, silence_start, current_time, n, clip_end, video_clip, config) ==
    IF current_time >= clip_end
    THEN IF silence_start = None THEN sections
         ELSE sections \o
                  silence_section(config,
                      CHOOSE t \in silence_start : TRUE, current_time,
                      {"Silent section at end"})
    ELSE LET window_end == Min({current_time + chunk_duration, clip_end})
             audio_chunk == video_clip.level_db[n]
         IN IF audio_chunk = None
            THEN silence_from(sections, silence_start, window_end, n + 1,
                              clip_end, video_clip, config)
            ELSE IF (CHOOSE level \in audio_chunk : TRUE)
                        < config.silence_threshold_db
            THEN silence_from(sections,
                     IF silence_start = None THEN {current_time}
                     ELSE silence_start,
                     window_end, n + 1, clip_end, video_clip, config)
            ELSE IF silence_start = None
            THEN silence_from(sections, None, window_end, n + 1, clip_end,
                              video_clip, config)
            ELSE silence_from(
                     sections \o
                         silence_section(config,
                             CHOOSE t \in silence_start : TRUE,
                             current_time, {"Silent section"}),
                     None, window_end, n + 1, clip_end, video_clip, config)

\* VideoFileClip(...) raising ends the call with no section
detect_silence(config, video_clip, start_time, end_time) ==
    IF ~video_clip.loads \/ ~video_clip.audio THEN <<>>
    ELSE LET clip_end ==
                 IF end_time = None THEN video_clip.duration
                 ELSE Min({CHOOSE t \in end_time : TRUE,
                           video_clip.duration})
         IN silence_from(<<>>, None, start_time, 1, clip_end, video_clip,
                         config)

\* a call of detect_black_frames on a capture, or a call of detect_silence
\* on a clip
InitDetect ==
    /\ StoreInit
    /\ FilterIdle
    /\ AssemblerIdle
    /\ ChunkerIdle
    /\ scene_changes = None
    /\ opens = <<>>
    /\ credits_filter \in CreditsFilters
    /\ window \in Ranges
    /\ \/ /\ video_file \in BlackCaptures
          /\ clip = [loads |-> FALSE, audio |-> FALSE, duration |-> 0,
                     level_db |-> <<>>]
       \/ /\ video_file = [opened |-> FALSE, fps |-> 0, total_frames |-> 0,
                           brightness |-> <<>>]
          /\ clip \in Clips
    /\ black_sections = None
    /\ silence_sections = None

DetectBlackFrames ==
    /\ black_sections = None
    /\ black_sections' = {detect_black_frames(credits_filter, video_file,
                              window.start_time, window.end_time)}
    /\ UNCHANGED <<store, last, sess, jobs, filter_vars, assembler_vars,
                   chunker_vars, scene_vars, credits_filter, clip,
                   silence_sections>>

DetectSilence ==
    /\ silence_sections = None
    /\ silence_sections' = {detect_silence(credits_filter, clip,
                                window.start_time, window.end_time)}
    /\ UNCHANGED <<store, last, sess, jobs, filter_vars, assembler_vars,
                   chunker_vars, scene_vars, credits_filter, clip,
                   black_sections>>

NextDetect ==
    \/ DetectBlackFrames
    \/ DetectSilence

SpecDetect == InitDetect /\ [][NextDetect]_vars

\* ---- VideoChunker.process_video and CreditsFilter.filter_video ---------
\* slip: the analysis ends at the first window whose capture did not open
process_video_until_failure(config, video, cap, opened) == SubSeq([i \in 1..Len(calculate_chunks(config, video)) |-> calculate_chunks(config, video)[i]], 1, Min({i \in 1..(Len(opened) + 1) : i > Len(opened) \/ ~opened[i]}) - 1)

\* process_video from the metadata on: the chunks are planned, then each
\* window in turn gets a capture of its own (opened[i]: whether the i-th
\* opened) and the scene changes found in it
process_video(config, video, cap, opened) ==
    LET planned == calculate_chunks(config, video)
    IN [i \in 1..Len(planned) |->
           LET chunk == planned[i]
               found ==
                   detect_scenes_in_chunk(config,
                       [cap EXCEPT !.opened = opened[i]],
                       chunk.start_time, chunk.end_time, None)
           IN IF found # <<>>
              THEN [chunk EXCEPT !.scene_changes = found,
                                 !.has_scene_change = TRUE]
              ELSE chunk]

\* filter_video with its local variables (manual: the manual skips, the
\* empty list when the caller passes none)
filter_video(config, cap, video_clip, start_time, end_time, manual) ==
    LET black == detect_black_frames(config, cap, start_time, end_time)
        silence == detect_silence(config, video_clip, start_time, end_time)
    IN [black_sections |-> black,
        silence_sections |-> silence,
        detected_sections |-> black \o silence,
        all_sections |-> combine_with_manual_skips(black \o silence, manual)]

\* a video of up to MaxFrames seconds at one frame a second for a chunker
\* with windows of two seconds, and which of the captures open
InitProcess ==
    /\ FilterIdle
    /\ CreditsIdle
    /\ chunker \in [chunk_duration : {2}, overlap_duration : {0, 1},
                    scene_threshold : {3}]
    /\ construction = None
    /\ metadata \in [duration : 1..MaxFrames]
    /\ chunks = None
    /\ video_file \in {cap \in Captures :
                           /\ cap.opened
                           /\ cap.fps = [num |-> 1, den |-> 1]
                           /\ cap.frames = metadata.duration}
    /\ window = [start_time |-> 0, end_time |-> 0, threshold |-> None]
    /\ scene_changes = None
    /\ opens \in [1..Len(calculate_chunks(chunker, metadata)) -> BOOLEAN]

\* a capture at four frames a second, a clip with audio, and manual skips
\* for a filter with a minimum of half a second
InitFilterVideo ==
    /\ ChunkerIdle
    /\ scene_changes = None
    /\ opens = <<>>
    /\ credits_filter = [black_frame_threshold |-> 20,
                         silence_threshold_db |-> -40,
                         min_section_duration |-> 2]
    /\ window = [start_time |-> 0, end_time |-> None]
    /\ video_file \in {cap \in BlackCaptures :
                           /\ cap.fps = 4
                           /\ cap.total_frames = Len(cap.brightness)}
    /\ clip \in {video_clip \in Clips :
                     video_clip.audio /\ video_clip.duration = MaxAudio}
    /\ detected_sections = <<>>
    /\ manual_skips \in SeqsUpTo(ManualSections, 1)
    /\ combined = None
    /\ black_sections = None
    /\ silence_sections = None

InitAnalysis ==
    /\ StoreInit
    /\ AssemblerIdle
    /\ \/ InitProcess
       \/ InitFilterVideo

ProcessVideo ==
    /\ chunks = None
    /\ opens # <<>>
    /\ chunks' = {process_video(chunker, metadata, video_file, opens)}
    /\ UNCHANGED <<store, last, sess, jobs, filter_vars, assembler_vars,
                   chunker, metadata, construction, scene_vars,
                   credits_vars>>

FilterVideo ==
    /\ combined = None
    /\ opens = <<>>
    /\ LET res == filter_video(credits_filter, video_file, clip,
                               window.start_time, window.end_time,
                               manual_skips)
       IN /\ black_sections' = {res.black_sections}
          /\ silence_sections' = {res.silence_sections}
          /\ detected_sections' = res.detected_sections
          /\ combined' = {res.all_sections}
    /\ UNCHANGED <<store, last, sess, jobs, manual_skips, assembler_vars,
                   chunker_vars, scene_vars, credits_filter, clip>>

NextAnalysis ==
    \/ ProcessVideo
    \/ FilterVideo

SpecAnalysis == InitAnalysis /\ [][NextAnalysis]_vars

\* ======================================================================
\* Properties of the calls issued one at a time (specification Spec)
\* ======================================================================

Present(st, id) == \E r \in st : r.id = id
RowOf(st, id) == CHOOSE r \in st : r.id = id
TheValue(opt) == CHOOSE v \in opt : TRUE
StrictOverlap(a, b) ==
    a.start_seconds < b.end_seconds /\ a.end_seconds > b.start_seconds

\* C1: after any sequence of add, update, delete and clear calls issued one
\* at a time, no two distinct stored sections of one job strictly overlap
\* (touching endpoints are allowed).
C1_NoStoredOverlap ==
    \A a, b \in store :
        (a.id # b.id /\ a.job_id = b.job_id) => ~StrictOverlap(a, b)

\* two touching sections of one job are stored after a rejected overlap
C1_Witness ==
    /\ last.kind = "raise"
    /\ last.value = {"OverlappingSectionError"}
    /\ \E a, b \in store :
           a.job_id = b.job_id /\ a.end_seconds = b.start_seconds

\* C3: whenever add_skip_section or update_skip_section raises
\* InvalidTimeRangeError or OverlappingSectionError the store is exactly as
\* it was before the call (no row added, no start, end or reason changed).
C3_FailureLeavesStore ==
    [][(/\ last'.op \in {"add", "update"}
        /\ last'.kind = "raise"
        /\ last'.value \in {{"InvalidTimeRangeError"},
                            {"OverlappingSectionError"}})
       => store' = store]_vars

\* an update that supplies a new reason together with an overlapping range
\* was rejected, and the row still has no reason
C3_Witness ==
    /\ last.op = "update"
    /\ last.kind = "raise"
    /\ last.value = {"OverlappingSectionError"}
    /\ last.reason # None
    /\ Present(store, TheValue(last.section_id))
    /\ RowOf(store, TheValue(last.section_id)).reason = None

\* C4: for a valid range, add_skip_section raises OverlappingSectionError
\* iff the range strictly overlaps a stored section of the same job;
\* otherwise it persists exactly one new row with that range.  Touching
\* ranges and sections of other jobs never cause a rejection.
C4_AddStep ==
    LET job_id == TheValue(last'.job_id)
        new_start == TheValue(last'.start_seconds)
        new_end == TheValue(last'.end_seconds)
        conflict == \E s \in store :
                        /\ s.job_id = job_id
                        /\ new_start < s.end_seconds
                        /\ new_end > s.start_seconds
    IN (last'.op = "add" /\ 0 <= new_start /\ new_start < new_end) =>
         /\ (last'.kind = "raise") <=> conflict
         /\ last'.kind = "raise" =>
                last'.value = {"OverlappingSectionError"}
         /\ ~conflict =>
              /\ Cardinality(store' \ store) = 1
              /\ store \subseteq store'
              /\ \A r \in store' \ store :
                    /\ r.job_id = job_id
                    /\ r.start_seconds = new_start
                    /\ r.end_seconds = new_end
                    /\ r.reason = last'.reason
                    /\ last'.value = {r}

C4_AddOverlapIff == [][C4_AddStep]_vars

\* an add was accepted although its range touches the end of a stored
\* section of the same job
C4_Witness ==
    /\ last.op = "add"
    /\ last.kind = "return"
    /\ \E s \in store :
           /\ s.job_id = TheValue(last.value).job_id
           /\ s.end_seconds = TheValue(last.value).start_seconds

\* C5: every stored section satisfies 0 <= start < end, and add and update
\* raise InvalidTimeRangeError whenever the resulting range has start < 0 or
\* start >= end (before any overlap check) without adjusting the range.
C5_ValidStored ==
    \A r \in store : 0 <= r.start_seconds /\ r.start_seconds < r.end_seconds

C5_RejectStep ==
    LET target == IF last'.op = "update"
                  THEN {r \in store : r.id = TheValue(last'.section_id)}
                  ELSE {}
        new_start == IF last'.start_seconds # None
                     THEN TheValue(last'.start_seconds)
                     ELSE TheValue(target).start_seconds
        new_end == IF last'.end_seconds # None
                   THEN TheValue(last'.end_seconds)
                   ELSE TheValue(target).end_seconds
    IN (/\ last'.op \in {"add", "update"}
        /\ last'.op = "update" => target # {}
        /\ (new_start < 0 \/ new_start >= new_end))
       => /\ last'.kind = "raise"
          /\ last'.value = {"InvalidTimeRangeError"}
          /\ store' = store

C5_RangeValid == []C5_ValidStored /\ [][C5_RejectStep]_vars

\* an add was rejected as invalid although its (empty or negative) range
\* also satisfies the overlap test against a stored section of the job
C5_Witness ==
    /\ last.op = "add"
    /\ last.kind = "raise"
    /\ last.value = {"InvalidTimeRangeError"}
    /\ \E s \in store :
           /\ s.job_id = TheValue(last.job_id)
           /\ TheValue(last.start_seconds) < s.end_seconds
           /\ TheValue(last.end_seconds) > s.start_seconds

\* C6: update_skip_section builds the new range from the supplied fields,
\* keeping the current value of a field not supplied, and checks overlap
\* against the other sections of the job only: a valid range that overlaps
\* no other section is persisted in place (same id, same job), one that
\* strictly overlaps another section raises OverlappingSectionError.
C6_UpdateStep ==
    LET section_id == TheValue(last'.section_id)
        old == RowOf(store, section_id)
        new_start == IF last'.start_seconds # None
                     THEN TheValue(last'.start_seconds)
                     ELSE old.start_seconds
        new_end == IF last'.end_seconds # None
                   THEN TheValue(last'.end_seconds)
                   ELSE old.end_seconds
        conflict == \E s \in store :
                        /\ s.id # section_id
                        /\ s.job_id = old.job_id
                        /\ new_start < s.end_seconds
                        /\ new_end > s.start_seconds
        new == [id |-> section_id, job_id |-> old.job_id,
                start_seconds |-> new_start, end_seconds |-> new_end,
                reason |-> IF last'.reason # None THEN last'.reason
                           ELSE old.reason]
    IN (/\ last'.op = "update"
        /\ Present(store, section_id)
        /\ 0 <= new_start /\ new_start < new_end)
       => /\ conflict =>
               /\ last'.kind = "raise"
               /\ last'.value = {"OverlappingSectionError"}
          /\ ~conflict =>
               /\ last'.kind = "return"
               /\ last'.value = {new}
               /\ store' = (store \ {old}) \cup {new}

C6_UpdateInPlace == [][C6_UpdateStep]_vars

\* an update that supplied only a new end (so that the new range overlaps
\* the section's own previous range) succeeded while the job has another
\* section
C6_Witness ==
    /\ last.op = "update"
    /\ last.kind = "return"
    /\ last.value # None
    /\ last.start_seconds = None
    /\ last.end_seconds # None
    /\ \E s \in store :
           /\ s.job_id = TheValue(last.value).job_id
           /\ s.id # TheValue(last.value).id

\* C7: for a section id that is not in the store get_skip_section_by_id
\* returns None, update_skip_section returns None and delete_skip_section
\* returns False; none raises and none changes the store.
C7_MissingStep ==
    (/\ last'.op \in {"get_by_id", "update", "delete"}
     /\ ~Present(store, TheValue(last'.section_id)))
    => /\ last'.kind = "return"
       /\ last'.value = IF last'.op = "delete" THEN {FALSE} ELSE None
       /\ store' = store

C7_MissingIdSentinel == [][C7_MissingStep]_vars

\* an update with an invalid range named an id that is not stored
C7_Witness ==
    /\ last.op = "update"
    /\ ~Present(store, TheValue(last.section_id))
    /\ store # {}
    /\ last.start_seconds = {1}
    /\ last.end_seconds = {1}
    /\ last.value = None

\* C8: life cycle absent -> present -> (updated)* -> absent.  delete returns
\* True exactly when the id is present, removes that row and no other, and
\* afterwards the id is absent: get_skip_section_by_id returns None, no
\* get_skip_sections result has it, a second delete returns False and the
\* range can be created again.  A row appears only by add and disappears
\* only by delete or clear.
C8_DeleteStep ==
    LET section_id == TheValue(last'.section_id)
    IN last'.op = "delete" =>
        /\ last'.value = {Present(store, section_id)}
        /\ Present(store, section_id) =>
            LET old == RowOf(store, section_id)
            IN /\ store' = store \ {old}
               /\ get_skip_section_by_id(store', section_id) = None
               /\ \A j \in Jobs : \A f \in get_skip_sections(store', j) :
                      \A i \in 1..Len(f) : f[i].id # section_id
               /\ delete_skip_section(store', section_id).value = FALSE
               /\ add_skip_section(store', old.job_id, old.start_seconds,
                                   old.end_seconds, None).kind = "return"

C8_LifeStep ==
    \A id \in SectionIds :
        /\ (~Present(store, id) /\ Present(store', id)) => last'.op = "add"
        /\ (Present(store, id) /\ ~Present(store', id))
               => last'.op \in {"delete", "clear"}
        /\ (Present(store, id) /\ Present(store', id)
            /\ RowOf(store, id) # RowOf(store', id)) => last'.op = "update"

C9_ListSorted ==
    last.op = "get_sections" =>
        LET f == TheValue(last.value)
            rows == {r \in store : r.job_id = TheValue(last.job_id)}
        IN /\ {f[i] : i \in 1..Len(f)} = rows
           /\ Len(f) = Cardinality(rows)
           /\ \A i \in 1..(Len(f) - 1) :
                  f[i].start_seconds <= f[i + 1].start_seconds

\* the list has two sections, the one with the larger id first
C9_Witness ==
    /\ last.op = "get_sections"
    /\ Len(TheValue(last.value)) = 2
    /\ TheValue(last.value)[1].id > TheValue(last.value)[2].id

RECURSIVE SetSum(_)
SetSum(S) ==
    IF S = {} THEN 0
    ELSE LET r == CHOOSE x \in S : TRUE
         IN (r.end_seconds - r.start_seconds) + SetSum(S \ {r})

\* C10: get_total_skipped_duration(job_id) is the sum of end - start over
\* the sections stored for the job at the time of the call, 0 when there
\* are none.
C10_TotalDuration ==
    last.op = "get_total" =>
        LET rows == {r \in store : r.job_id = TheValue(last.job_id)}
        IN /\ last.value = {SetSum(rows)}
           /\ rows = {} => last.value = {0}

\* the total of a job with two sections, 1 s and 1 s long
C10_Witness ==
    /\ last.op = "get_total"
    /\ last.value = {2}
    /\ Cardinality({r \in store : r.job_id = TheValue(last.job_id)}) = 2

\* ======================================================================
\* Properties of two concurrent sessions (specification SpecConc)
\* ======================================================================

\* C2: when add_skip_section or update_skip_section calls on one job run
\* concurrently in separate sessions, under every interleaving of their
\* check and commit steps the committed sections of the job remain pairwise
\* non-overlapping.
C2_ConcurrentNoOverlap ==
    \A a \in store : \A b \in store \ {a} :
        a.job_id = b.job_id =>
            ~sections_overlap(a.start_seconds, a.end_seconds,
                              b.start_seconds, b.end_seconds)


\* ======================================================================
\* Properties of jobs and their skip sections (specification SpecJobs)
\* ======================================================================

\* C11: deleting a job deletes every skip section owned by that job and
\* leaves the skip sections of the other jobs unchanged.
C11_DeleteJobStep ==
    last'.op = "delete_job" =>
        LET job_id == TheValue(last'.job_id)
        IN /\ \A r \in store' : r.job_id # job_id
           /\ \A r \in store : r.job_id # job_id => r \in store'
           /\ store' \subseteq store

C11_JobDeleteCascades == [][C11_DeleteJobStep]_vars

\* a job with a section has been deleted and a section of the other job is
\* still stored
C11_Witness ==
    /\ last.op = "delete_job"
    /\ TheValue(last.value) # {}
    /\ \E r \in store : r.job_id # TheValue(last.job_id)

\* ======================================================================
\* Properties of the merge of detected and manual sections (specification
\* SpecFilter)
\* ======================================================================

\* the sections handed to the merge, detected first
Inputs == detected_sections \o manual_skips
Combined == TheValue(combined)
\* start, end, method and confidence of each section, in order
Core(sections) ==
    [i \in 1..Len(sections) |->
        <<sections[i].start_seconds, sections[i].end_seconds,
          sections[i].method, sections[i].confidence>>]
\* the positions of the inputs that start inside output section o
Members(o) ==
    {i \in 1..Len(Inputs) :
        /\ o.start_seconds <= Inputs[i].start_seconds
        /\ Inputs[i].start_seconds < o.end_seconds}

\* C12: merging the result of a merge with an empty list gives the result
\* again: the same start, end, method and confidence, in the same order.
C12_MergeIdempotent ==
    combined # None =>
        Core(combine_with_manual_skips(Combined, <<>>)) = Core(Combined)

\* three sections were merged into two
C12_Witness ==
    /\ combined # None
    /\ Len(Inputs) = 3
    /\ Len(Combined) = 2

\* C13: for inputs with start < end, the output is sorted ascending by
\* start, its sections are pairwise non-overlapping (a.end <= b.start for a
\* before b) and each has start < end.
C13_SortedDisjoint ==
    combined # None =>
        /\ \A i \in 1..Len(Combined) :
               Combined[i].start_seconds < Combined[i].end_seconds
        /\ \A i, j \in 1..Len(Combined) :
               i < j => /\ Combined[i].start_seconds <= Combined[j].start_seconds
                        /\ Combined[i].end_seconds <= Combined[j].start_seconds

\* inputs that were not sorted and overlapped came out as two sections
C13_Witness ==
    /\ combined # None
    /\ Len(Combined) = 2
    /\ \E i, j \in 1..Len(Inputs) :
           i < j /\ Inputs[j].start_seconds < Inputs[i].start_seconds
    /\ \E i, j \in 1..Len(Inputs) :
           i # j /\ Inputs[i].start_seconds = Inputs[j].start_seconds

\* C14: two sections are merged only when the later one starts strictly
\* before the current merged section ends: an input that starts exactly
\* where an output section ends starts an output section of its own, and
\* two touching inputs alone come out as they went in, each with its own
\* method and confidence.
C14_TouchingKept ==
    combined # None =>
        /\ \A i \in 1..Len(Combined), k \in 1..Len(Inputs) :
               Inputs[k].start_seconds = Combined[i].end_seconds =>
                   \E j \in 1..Len(Combined) :
                       Combined[j].start_seconds = Inputs[k].start_seconds
        /\ \A a, b \in 1..Len(Inputs) :
               (Len(Inputs) = 2 /\ a # b
                /\ Inputs[a].end_seconds = Inputs[b].start_seconds)
                   => Combined = <<Inputs[a], Inputs[b]>>

\* two touching sections of different methods and confidences were combined
C14_Witness ==
    /\ combined # None
    /\ Len(Inputs) = 2
    /\ Inputs[1].end_seconds = Inputs[2].start_seconds
    /\ Inputs[1].method # Inputs[2].method
    /\ Inputs[1].confidence # Inputs[2].confidence
    /\ Len(Combined) = 2

\* C15: an output section formed by merging two or more inputs of which at
\* least one is MANUAL has method MANUAL and confidence 1.0, wherever the
\* MANUAL input sits in the chain.
C15_ManualPrecedence ==
    combined # None =>
        \A i \in 1..Len(Combined) :
            (/\ Cardinality(Members(Combined[i])) >= 2
             /\ \E k \in Members(Combined[i]) : Inputs[k].method = "manual")
                => /\ Combined[i].method = "manual"
                   /\ Combined[i].confidence = ConfidenceOne

\* a chain of three was merged whose only MANUAL section is neither the
\* first nor the last in the sorted order, and the detected ones had a lower
\* confidence
C15_Witness ==
    /\ combined # None
    /\ Len(Inputs) = 3
    /\ Len(Combined) = 1
    /\ LET all_sections == sort_by_start(Inputs)
       IN /\ all_sections[2].method = "manual"
          /\ \A k \in {1, 3} : /\ all_sections[k].method # "manual"
                               /\ all_sections[k].confidence < ConfidenceOne
    /\ Combined[1].method = "manual"

\* C16: when non-MANUAL overlapping sections are merged, the result keeps
\* the method of the earlier section (one of smallest start), takes the
\* maximum of the confidences, starts at the earlier start and ends at the
\* maximum of the ends.
C16_DetectedMerge ==
    combined # None =>
        \A i \in 1..Len(Combined) :
            LET o == Combined[i]
                members == Members(o)
            IN (/\ Cardinality(members) >= 2
                /\ \A k \in members : Inputs[k].method # "manual")
                   => /\ \E k \in members :
                             /\ \A n \in members :
                                    Inputs[k].start_seconds
                                        <= Inputs[n].start_seconds
                             /\ o.method = Inputs[k].method
                             /\ o.start_seconds = Inputs[k].start_seconds
                      /\ o.confidence
                             = Max({Inputs[k].confidence : k \in members})
                      /\ o.end_seconds
                             = Max({Inputs[k].end_seconds : k \in members})

\* two detected sections were merged: the earlier one has the other method
\* and the lower confidence
C16_Witness ==
    /\ combined # None
    /\ manual_skips = <<>>
    /\ Len(detected_sections) = 2
    /\ Len(Combined) = 1
    /\ \E a, b \in 1..2 :
           /\ detected_sections[a].start_seconds
                  < detected_sections[b].start_seconds
           /\ detected_sections[a].confidence
                  < detected_sections[b].confidence
           /\ detected_sections[a].method # detected_sections[b].method
           /\ Combined[1].method = detected_sections[a].method
           /\ Combined[1].confidence = detected_sections[b].confidence

\* ======================================================================
\* Properties of the filtered transcript (specification SpecAssembler)
\* ======================================================================

\* the segments of all transcriptions, in the order of the input
RECURSIVE AllSegments(_)
AllSegments(results) ==
    IF results = <<>> THEN <<>>
    ELSE Head(results).segments \o AllSegments(Tail(results))

\* some filtered section strictly overlaps the segment
Dropped(segment) ==
    \E k \in 1..Len(filtered_sections) :
        /\ segment.start_time < filtered_sections[k].end_seconds
        /\ segment.end_time > filtered_sections[k].start_seconds
Survives(segment) == ~Dropped(segment)
\* the texts of the segments no filtered section overlaps, in input order
SurvivingTexts ==
    LET survivors == SelectSeq(AllSegments(transcriptions), Survives)
    IN [i \in 1..Len(survivors) |-> survivors[i].text]
Built == TheValue(filtered_transcript)
\* the number of characters before the i-th text in the joined string
RECURSIVE Offset(_, _)
Offset(texts, i) ==
    IF i = 1 THEN 0 ELSE Offset(texts, i - 1) + Len(texts[i - 1]) + 1

\* C17: a segment is dropped if and only if some filtered section has
\* segment.start_time < section.end_seconds and segment.end_time >
\* section.start_seconds; a segment that only touches a section is kept.
C17_DropIffOverlap ==
    filtered_transcript # None =>
        /\ \A i \in 1..Len(AllSegments(transcriptions)) :
               LET segment == AllSegments(transcriptions)[i]
               IN segment_in_filtered_section(segment, filtered_sections)
                      <=> Dropped(segment)
        /\ Built.kept_segments = SurvivingTexts

\* of two segments the first was dropped and the second, which touches a
\* filtered section, was kept
C17_Witness ==
    /\ filtered_transcript # None
    /\ Len(AllSegments(transcriptions)) = 2
    /\ Built.kept_segments = <<Word(2)>>
    /\ \E k \in 1..Len(filtered_sections) :
           filtered_sections[k].end_seconds
               = AllSegments(transcriptions)[2].start_time

\* C18: the filtered transcript is the texts of the surviving segments in
\* their original order joined by single spaces; with no transcriptions or
\* with every segment dropped it is the empty string.
C18_JoinedInOrder ==
    filtered_transcript # None =>
        LET texts == SurvivingTexts
            transcript == Built.transcript
            n == Len(texts)
        IN /\ n = 0 => transcript = <<>>
           /\ n > 0 =>
                /\ Len(transcript) = Offset(texts, n + 1) - 1
                /\ \A i \in 1..n :
                       /\ SubSeq(transcript, Offset(texts, i) + 1,
                                 Offset(texts, i) + Len(texts[i])) = texts[i]
                       /\ i < n => transcript[Offset(texts, i + 1)] = " "

\* the segments of two transcriptions were kept, next to a filtered section
C18_Witness ==
    /\ filtered_transcript # None
    /\ Len(transcriptions) = 2
    /\ \A i \in 1..2 : Len(transcriptions[i].segments) = 1
    /\ filtered_sections # <<>>
    /\ Built.transcript = <<"x", " ", "x", "x">>

\* ======================================================================
\* Properties of the chunk plan (specification SpecChunker)
\* ======================================================================

Chunks == TheValue(chunks)

\* C19: for a positive duration (chunk_duration > 0 and 0 <= overlap <
\* chunk_duration hold for every constructed chunker) the first chunk
\* starts at 0, the last chunk ends exactly at the duration, no chunk ends
\* after the duration, and consecutive chunks start exactly chunk_duration
\* - overlap_duration apart.
C19_ChunkPlan ==
    (chunks # None /\ metadata.duration > 0) =>
        /\ Len(Chunks) >= 1
        /\ Chunks[1].start_time = 0
        /\ Chunks[Len(Chunks)].end_time = metadata.duration
        /\ \A i \in 1..Len(Chunks) : Chunks[i].end_time <= metadata.duration
        /\ \A i \in 1..(Len(Chunks) - 1) :
               Chunks[i + 1].start_time - Chunks[i].start_time
                   = chunker.chunk_duration - chunker.overlap_duration

\* a video of 60 s with chunks of 30 s and 5 s of overlap (12, 6 and 1
\* units): the chunks [0, 30), [25, 55) and [50, 60)
C19_Witness ==
    /\ chunks # None
    /\ metadata.duration = 12
    /\ chunker.chunk_duration = 6
    /\ chunker.overlap_duration = 1
    /\ Chunks = <<VideoChunk(0, 6, 0), VideoChunk(5, 11, 1),
                  VideoChunk(10, 12, 2)>>

\* C20, as stated: if the duration is at most chunk_duration the result is
\* exactly one chunk covering [0, duration), for every valid overlap.
C20_ShortVideoOneChunk ==
    (chunks # None /\ metadata.duration > 0
     /\ metadata.duration <= chunker.chunk_duration)
        => Chunks = <<VideoChunk(0, metadata.duration, 0)>>

\* C20, amended: the result is exactly one chunk if and only if the
\* duration is at most chunk_duration - overlap_duration, and that chunk
\* covers [0, duration); a longer video of at most chunk_duration gets
\* [0, duration) as the first of several chunks.
C20_ShortVideoWithinStep ==
    (chunks # None /\ metadata.duration > 0) =>
        /\ Len(Chunks) = 1
               <=> metadata.duration
                       <= chunker.chunk_duration - chunker.overlap_duration
        /\ metadata.duration <= chunker.chunk_duration
               => /\ Chunks[1] = VideoChunk(0, metadata.duration, 0)
                  /\ \A i \in 2..Len(Chunks) :
                         Chunks[i].end_time = metadata.duration

\* a video of 15 s with chunks of 30 s and 5 s of overlap (3, 6 and 1
\* units): the one chunk [0, 15)
C20_Witness ==
    /\ chunks # None
    /\ metadata.duration = 3
    /\ chunker.chunk_duration = 6
    /\ chunker.overlap_duration = 1
    /\ Chunks = <<VideoChunk(0, 3, 0)>>

\* ======================================================================
\* Properties of the construction of a chunker (specification
\* SpecConstruct)
\* ======================================================================

Constructed == TheValue(construction)

\* C21: VideoChunker(...) raises, and the caller gets no new chunker,
\* whenever chunk_duration <= 0, overlap_duration < 0 or overlap_duration >=
\* chunk_duration; so the step chunk_duration - overlap_duration of every
\* chunker there is is strictly positive.
C21_PositiveStep ==
    chunker.chunk_duration - chunker.overlap_duration > 0

C21_ConstructStep ==
    construction' # None =>
        LET args == TheValue(construction')
        IN (\/ args.chunk_duration <= 0
            \/ args.overlap_duration < 0
            \/ args.overlap_duration >= args.chunk_duration)
               => /\ args.kind = "raise"
                  /\ chunker' = chunker

C21_InvalidChunkerRejected == []C21_PositiveStep /\ [][C21_ConstructStep]_vars

\* a call with the overlap equal to the chunk duration and an admissible
\* threshold raised, after a chunker other than the default one was made
C21_Witness ==
    /\ construction # None
    /\ Constructed.kind = "raise"
    /\ Constructed.chunk_duration > 0
    /\ Constructed.overlap_duration = Constructed.chunk_duration
    /\ Constructed.scene_threshold = 3
    /\ chunker.chunk_duration # 6

\* ======================================================================
\* More properties of the chunk plan (specification SpecChunker)
\* ======================================================================

Step == chunker.chunk_duration - chunker.overlap_duration

\* C27: for every constructed chunker and every positive duration the plan
\* is made (the loop ends) and has exactly one chunk for each start
\* i * step below the duration, with the indices 0, 1, ..., n - 1 in the
\* order of emission, n being the duration divided by the step, rounded up.
C27_OneChunkPerStep ==
    (chunks # None /\ metadata.duration > 0) =>
        /\ Len(Chunks) = (metadata.duration + Step - 1) \div Step
        /\ \A i \in 1..Len(Chunks) :
               /\ Chunks[i].index = i - 1
               /\ Chunks[i].start_time = (i - 1) * Step
        /\ \A i \in 0..metadata.duration :
               i * Step < metadata.duration
                   => \E k \in 1..Len(Chunks) : Chunks[k].start_time = i * Step

\* a video of 30 s with chunks of 30 s and 5 s of overlap (6, 6 and 1
\* units): the chunks 0-30 and 25-30
C27_Witness ==
    /\ chunks # None
    /\ metadata.duration = 6
    /\ chunker.chunk_duration = 6
    /\ chunker.overlap_duration = 1
    /\ Len(Chunks) = 2
    /\ Chunks[2].start_time = 5
    /\ Chunks[2].end_time = 6
    /\ Chunks[2].index = 1

\* C28: every chunk has start < end and is at most chunk_duration long,
\* each chunk after the first starts no later than the one before it ends,
\* and every time from 0 up to the duration lies in some chunk.
C28_ChunksCover ==
    chunks # None =>
        /\ \A i \in 1..Len(Chunks) :
               /\ Chunks[i].start_time < Chunks[i].end_time
               /\ Chunks[i].end_time - Chunks[i].start_time
                      <= chunker.chunk_duration
        /\ \A i \in 1..(Len(Chunks) - 1) :
               Chunks[i + 1].start_time <= Chunks[i].end_time
        /\ \A t \in 0..(metadata.duration - 1) :
               \E i \in 1..Len(Chunks) :
                   Chunks[i].start_time <= t /\ t < Chunks[i].end_time

\* three chunks of which the last is cut short, each overlapping the one
\* before
C28_Witness ==
    /\ chunks # None
    /\ Len(Chunks) = 3
    /\ Chunks[3].end_time - Chunks[3].start_time < chunker.chunk_duration
    /\ \A i \in 1..2 : Chunks[i + 1].start_time < Chunks[i].end_time

\* ======================================================================
\* More properties of the merge (specification SpecFilter)
\* ======================================================================

\* the orders in which n sections can be handed over
Orders(n) == {p \in [1..n -> 1..n] : \A i, j \in 1..n : p[i] = p[j] => i = j}
\* the whole seconds [t, t + 1) that lie in some section
Covered(sections) ==
    {t \in 0..(MaxTime - 1) :
        \E i \in 1..Len(sections) :
            sections[i].start_seconds <= t /\ t < sections[i].end_seconds}

\* C26: for a fixed multiset of sections, every order of the sections and
\* every split of them between the two lists gives the same output: the
\* same start, end, method and confidence of each output section.
C26_OrderIndependent ==
    combined # None =>
        \A p \in Orders(Len(Inputs)), k \in 0..Len(Inputs) :
            LET reordered == [i \in 1..Len(Inputs) |-> Inputs[p[i]]]
            IN Core(combine_with_manual_skips(
                        SubSeq(reordered, 1, k),
                        SubSeq(reordered, k + 1, Len(Inputs))))
                   = Core(Combined)

\* C29: for sections with start < end the output covers exactly the time
\* the detected and the manual sections cover together.
C29_CoveragePreserved ==
    combined # None => Covered(Combined) = Covered(Inputs)

\* two sections were merged of which the one handed over first ends
\* earlier: the merged section ends with the other one
C29_Witness ==
    /\ combined # None
    /\ Len(Inputs) = 2
    /\ Len(Combined) = 1
    /\ Inputs[1].start_seconds <= Inputs[2].start_seconds
    /\ Inputs[1].end_seconds < Inputs[2].end_seconds
    /\ Combined[1].end_seconds = Inputs[2].end_seconds

\* ======================================================================
\* Properties of the merge and the transcript together (specification
\* SpecScript)
\* ======================================================================

\* C30: the transcript built with the merged sections is the transcript
\* built with the detected and the manual sections unmerged.
C30_MergeKeepsTranscript ==
    (/\ combined # None
     /\ filtered_transcript # None
     /\ filtered_sections \in {Combined, Inputs})
        => /\ Built.transcript
                  = build_filtered_transcript(transcriptions,
                                              Combined).transcript
           /\ Built.transcript
                  = build_filtered_transcript(transcriptions,
                                              Inputs).transcript

\* a detected and a manual section were merged into one and handed over; a
\* segment was dropped and a segment that touches the merged section was
\* kept
C30_Witness ==
    /\ combined # None
    /\ filtered_transcript # None
    /\ Len(Inputs) = 2
    /\ Len(Combined) = 1
    /\ filtered_sections = Combined
    /\ Len(AllSegments(transcriptions)) = 2
    /\ Len(Built.kept_segments) = 1
    /\ \E i \in 1..2 :
           AllSegments(transcriptions)[i].start_time
               = Combined[1].end_seconds

\* ======================================================================
\* Properties of the scene detection (specification SpecScenes)
\* ======================================================================
Scenes == CHOOSE found \in scene_changes : TRUE
UsedThreshold ==
    IF window.threshold = None THEN chunker.scene_threshold
    ELSE CHOOSE t \in window.threshold : TRUE
\* the frames the call reads: those of the window the capture delivers
ReadFrames ==
    IF ~video_file.opened THEN {}
    ELSE {k \in 0..(MaxFrames + 1) :
              /\ frame_of(window.start_time, video_file.fps) <= k
              /\ k <= frame_of(window.end_time, video_file.fps)
              /\ k < video_file.frames}
TimestampOf(k) == Rat(k * video_file.fps.den, video_file.fps.num)
\* the positions of the result that carry the timestamp of frame k
EmittedFor(k) ==
    {i \in 1..Len(Scenes) : Scenes[i].timestamp = TimestampOf(k)}
Differs(k) ==
    /\ k \in ReadFrames
    /\ k - 1 \in ReadFrames
    /\ ThresholdOne - Max({0, video_file.correlation[k + 1]})
           > UsedThreshold

\* C23: a frame read in the window gets one SceneChange when the frame
\* before it was read in the window too and their difference is greater
\* than the threshold, and none otherwise (none for an equal difference,
\* none for the first frame); the SceneChange has the frame's timestamp
\* and the difference as confidence, nothing else is reported, and the
\* timestamps ascend.
C23_SceneChangePerDifferingFrame ==
    scene_changes # None =>
        /\ \A k \in 0..(MaxFrames + 1) :
               /\ Cardinality(EmittedFor(k)) = (IF Differs(k) THEN 1 ELSE 0)
               /\ \A i \in EmittedFor(k) :
                      Scenes[i].confidence
                          = ThresholdOne
                                - Max({0, video_file.correlation[k + 1]})
        /\ \A i \in 1..Len(Scenes) :
               \E k \in ReadFrames : i \in EmittedFor(k)
        /\ \A i, j \in 1..Len(Scenes) :
               i < j => RatLess(Scenes[i].timestamp, Scenes[j].timestamp)

\* the window starts at frame 1, which differs from frame 0 and is not
\* reported; frame 2 differs by exactly the threshold and is not reported;
\* frame 3 differs by more and is reported
C23_Witness ==
    /\ scene_changes # None
    /\ video_file.opened
    /\ video_file.fps = [num |-> 2, den |-> 1]
    /\ video_file.frames = 4
    /\ window.start_time = 1
    /\ window.end_time = 2
    /\ video_file.correlation[2] = 0
    /\ ThresholdOne - video_file.correlation[3] = UsedThreshold
    /\ ThresholdOne - Max({0, video_file.correlation[4]}) > UsedThreshold
    /\ Len(Scenes) = 1
    /\ Scenes[1].timestamp = TimestampOf(3)

\* C25 as stated: every reported timestamp t has start_time <= t <
\* end_time.
C25_InsideHalfOpenWindow ==
    scene_changes # None =>
        \A i \in 1..Len(Scenes) :
            /\ RatLeq(Rat(window.start_time, 1), Scenes[i].timestamp)
            /\ RatLess(Scenes[i].timestamp, Rat(window.end_time, 1))

\* C25, amended: every reported timestamp t has start_time < t <=
\* end_time; the frame at int(end_time * fps) is read and compared.
C25_InsideWindowClosedAtEnd ==
    scene_changes # None =>
        \A i \in 1..Len(Scenes) :
            /\ RatLess(Rat(window.start_time, 1), Scenes[i].timestamp)
            /\ RatLeq(Scenes[i].timestamp, Rat(window.end_time, 1))

\* at a frame rate of 3/2 the window from 1 to 2 is the frames 1 to 3:
\* frame 1, before start_time, is read and not reported, frame 2 is
\* reported and frame 3 is reported with the timestamp end_time
C25_Witness ==
    /\ scene_changes # None
    /\ video_file.fps = [num |-> 3, den |-> 2]
    /\ window.start_time = 1
    /\ window.end_time = 2
    /\ RatLess(TimestampOf(frame_of(window.start_time, video_file.fps)),
               Rat(window.start_time, 1))
    /\ Len(Scenes) = 2
    /\ Scenes[1].timestamp = TimestampOf(2)
    /\ Scenes[2].timestamp = TimestampOf(3)
    /\ ~RatLess(Scenes[2].timestamp, Rat(window.end_time, 1))

\* ======================================================================
\* Properties of the two detectors of the filter (specification
\* SpecDetect)
\* ======================================================================
BlackFound == CHOOSE sections \in black_sections : TRUE
SilenceFound == CHOOSE sections \in silence_sections : TRUE
RangeEnd(whole) ==
    IF window.end_time = None THEN whole
    ELSE Min({CHOOSE t \in window.end_time : TRUE, whole})
\* the frames detect_black_frames looks at
AnalysedFrames ==
    IF ~video_file.opened THEN {}
    ELSE {k \in 0..MaxFrames :
              /\ frame_at(window.start_time, video_file.fps) <= k
              /\ k < (IF window.end_time = None
                      THEN video_file.total_frames
                      ELSE Min({frame_at(CHOOSE t \in window.end_time : TRUE,
                                         video_file.fps),
                                video_file.total_frames}))
              /\ k < Len(video_file.brightness)}
BlackFrame(k) ==
    /\ k \in AnalysedFrames
    /\ video_file.brightness[k + 1] < credits_filter.black_frame_threshold
\* the maximal runs of black frames, first and last frame
BlackRuns ==
    {r \in (0..MaxFrames) \X (0..MaxFrames) :
         /\ r[1] <= r[2]
         /\ \A k \in r[1]..r[2] : BlackFrame(k)
         /\ ~BlackFrame(r[1] - 1)
         /\ ~BlackFrame(r[2] + 1)}
\* the windows detect_silence looks at, numbered from 1
WindowStart(n) == window.start_time + chunk_duration * (n - 1)
WindowEnd(n) ==
    Min({WindowStart(n) + chunk_duration, RangeEnd(clip.duration)})
AnalysedWindows ==
    IF ~clip.loads \/ ~clip.audio THEN {}
    ELSE {n \in 1..AudioWindows : WindowStart(n) < RangeEnd(clip.duration)}
SilentWindow(n) ==
    /\ n \in AnalysedWindows
    /\ \E level \in clip.level_db[n] :
           level < credits_filter.silence_threshold_db
SilentRuns ==
    {r \in (1..AudioWindows) \X (1..AudioWindows) :
         /\ r[1] <= r[2]
         /\ \A n \in r[1]..r[2] : SilentWindow(n)
         /\ ~SilentWindow(r[1] - 1)
         /\ ~SilentWindow(r[2] + 1)}
\* the positions of a result that carry the interval from a to b
EmittedAs(sections, a, b) ==
    {i \in 1..Len(sections) :
         sections[i].start_seconds = a /\ sections[i].end_seconds = b}

\* C22: of the maximal runs of black frames (of silent windows) of the
\* analysed range, those that last min_section_duration or longer are
\* emitted as one interval each, from the start of the run to its end, the
\* shorter ones are not emitted, and nothing else is.
C22_RunsOfMinimumDurationEmitted ==
    /\ (black_sections # None /\ video_file.opened /\ video_file.fps # 0) =>
           /\ \A r \in BlackRuns :
                  Cardinality(EmittedAs(BlackFound,
                      (4 * r[1]) \div video_file.fps,
                      (4 * (r[2] + 1)) \div video_file.fps))
                      = (IF 4 * (r[2] + 1 - r[1])
                                >= credits_filter.min_section_duration
                                       * video_file.fps
                         THEN 1 ELSE 0)
           /\ Len(BlackFound)
                  = Cardinality({r \in BlackRuns :
                        4 * (r[2] + 1 - r[1])
                            >= credits_filter.min_section_duration
                                   * video_file.fps})
    /\ silence_sections # None =>
           /\ \A r \in SilentRuns :
                  Cardinality(EmittedAs(SilenceFound, WindowStart(r[1]),
                                        WindowEnd(r[2])))
                      = (IF WindowEnd(r[2]) - WindowStart(r[1])
                                >= credits_filter.min_section_duration
                         THEN 1 ELSE 0)
           /\ Len(SilenceFound)
                  = Cardinality({r \in SilentRuns :
                        WindowEnd(r[2]) - WindowStart(r[1])
                            >= credits_filter.min_section_duration})

\* of two runs of black frames, the one that is shorter than the minimum
\* and ended by a bright frame is not emitted, and the one that lasts
\* exactly the minimum and is ended by the end of the stream is emitted
C22_Witness ==
    /\ black_sections # None
    /\ video_file.opened
    /\ video_file.fps = 2
    /\ window.end_time = None
    /\ Cardinality(BlackRuns) = 2
    /\ Len(BlackFound) = 1
    /\ BlackFound[1].end_seconds - BlackFound[1].start_seconds
           = credits_filter.min_section_duration
    /\ BlackFound[1].end_seconds
           = (4 * Len(video_file.brightness)) \div video_file.fps

\* ======================================================================
\* Properties of the analysis of a whole video (specification
\* SpecAnalysis)
\* ======================================================================
Planned == calculate_chunks(chunker, metadata)
Processed == CHOOSE made \in chunks : TRUE
\* what the i-th window holds for a capture that opens
ScenesOfWindow(i) ==
    detect_scenes_in_chunk(chunker, video_file, Planned[i].start_time,
                           Planned[i].end_time, None)

\* C24: a capture that does not open gives its window no scene change, and
\* process_video still returns every planned chunk, each other window
\* with the scene changes found in it; a capture that does not open or
\* delivers no frame gives no black section, a clip that does not load
\* gives no silent section, and filter_video still merges what the other
\* detector found with the manual skips.
C24_FailureGivesNoSections ==
    /\ (chunks # None /\ opens # <<>>) =>
           /\ Len(Processed) = Len(Planned)
           /\ \A i \in 1..Len(Planned) :
                  /\ Processed[i].start_time = Planned[i].start_time
                  /\ Processed[i].end_time = Planned[i].end_time
                  /\ Processed[i].index = Planned[i].index
                  /\ Processed[i].scene_changes
                         = (IF opens[i] THEN ScenesOfWindow(i) ELSE <<>>)
                  /\ Processed[i].has_scene_change
                         = (Processed[i].scene_changes # <<>>)
    /\ (combined # None /\ black_sections # None
            /\ silence_sections # None) =>
           /\ (~video_file.opened \/ Len(video_file.brightness) = 0)
                  => BlackFound = <<>>
           /\ video_file.opened
                  => BlackFound
                         = detect_black_frames(credits_filter, video_file,
                               window.start_time, window.end_time)
           /\ ~clip.loads => SilenceFound = <<>>
           /\ clip.loads
                  => SilenceFound
                         = detect_silence(credits_filter, clip,
                               window.start_time, window.end_time)
           /\ Combined
                  = combine_with_manual_skips(BlackFound \o SilenceFound,
                                              manual_skips)

\* the capture of the first window did not open, that of the second did:
\* the first chunk is returned without the scene change its window holds,
\* the second with its own
C24_Witness ==
    /\ chunks # None
    /\ Len(opens) >= 2
    /\ ~opens[1]
    /\ opens[2]
    /\ ScenesOfWindow(1) # <<>>
    /\ Processed[1].scene_changes = <<>>
    /\ Processed[2].has_scene_change
    /\ Len(Processed) = Len(opens)

====
